---- MODULE Spec2Model ----
(***************************************************************************)
(* Model of the result-resolution core of the PeetBet agent SDK            *)
(* (PeetBetClient): the outcome derivations getCoinFlipGameResult and      *)
(* getDiceGameResult, and the polling waiters waitForCoinFlipResult and    *)
(* waitForDiceResult, run against a ledger whose rooms evolve on their own.*)
(***************************************************************************)
EXTENDS Integers, Sequences, FiniteSets, TLC

VARIABLES now, coin, dice, account, sess, call

vars == <<now, coin, dice, account, sess, call>>

-----------------------------------------------------------------------------
(* Bounds of the model *)

\* the clock stops advancing here (milliseconds)
MaxTime == 12000
\* the same, when two sessions run
MaxTimeTwo == 6000
\* a session may start while the clock is at most this
MaxStart == 2000
\* bound of the arbitrary room records the derivations are applied to
MaxRandomWord == 1

\* amounts by which the clock advances in one step (milliseconds)
ClockSteps == {2000}

-----------------------------------------------------------------------------
(* Addresses.  Strings are compared exactly (===) unless lowered first.    *)

ZERO_ADDRESS == "0x00"

\* The non-zero addresses of the model are "0xAa", "0xBb" and "0xCc";
\* "0xaa" and "0xbb" are the first two in another letter case.

Undefined == "undefined"

toLowerCase(a) ==
  CASE a = "0xAa" -> "0xaa"
    [] a = "0xBb" -> "0xbb"
    [] a = "0xCc" -> "0xcc"
    [] OTHER -> a

\* winner.slice(0, 10): the leading characters of the address
slice10(a) ==
  CASE a = "0xAa" -> "0xA"
    [] a = "0xaa" -> "0xa"
    [] a = "0xBb" -> "0xB"
    [] a = "0xbb" -> "0xb"
    [] a = "0xCc" -> "0xC"
    [] OTHER -> "0x0"

-----------------------------------------------------------------------------
(* formatTokens(amount) = formatUnits(amount, 6): the decimal rendering of *)
(* a fixed-point amount, trailing zeros of the fraction removed.           *)

RECURSIVE StripZeros(_, _)
\* [digits |-> the fraction as a number, width |-> how many digits it has]
StripZeros(frac, width) ==
  IF width = 0 \/ frac % 10 # 0
    THEN [digits |-> frac, width |-> width]
    ELSE StripZeros(frac \div 10, width - 1)

formatTokens(amount) ==
  LET neg == amount < 0
      abs == IF neg THEN 0 - amount ELSE amount
      f   == StripZeros(abs % 1000000, IF abs % 1000000 = 0 THEN 0 ELSE 6)
  IN  [neg |-> neg, int |-> abs \div 1000000, frac |-> f.digits, width |-> f.width]

-----------------------------------------------------------------------------
(* Errors thrown by the core, named by their message.                      *)

ErrCoinNotCompleted == "Game is not completed yet. Use waitForCoinFlipResult() to wait for completion."
ErrCoinCancelled    == "Game was cancelled or not completed."
ErrDiceNotCompleted == "Game is not completed yet. Use waitForDiceResult() to wait."
ErrRoomCancelled    == "Room was cancelled before game started."
ErrCoinTimeout      == "Timeout waiting for game result after N seconds"
ErrDiceTimeout      == "Timeout waiting for dice result after N seconds"
\* an exception raised by the transport of a ledger read
ErrRead             == "read failed"
\* an exception raised by the caller's onProgress callback
ErrCallback         == "onProgress threw"
ErrNoAddress        == "No address provided"
ErrWallet           == "Wallet not configured. Provide privateKey in options."

Failure(msg) == [ok |-> FALSE, error |-> msg]
Success(res) == [ok |-> TRUE, value |-> res]

-----------------------------------------------------------------------------
(* Outcome derivation, as computed after the reads have returned.          *)

\* the observer defaulting to the address given to the call made before
observerRemembered(playerAddress) ==
  IF playerAddress # Undefined THEN playerAddress
  ELSE IF call.fn \in {"getCoinFlipGameResult", "getDiceGameResult"}
            /\ call.playerAddress # Undefined
    THEN call.playerAddress
  ELSE account

\* const player = playerAddress ?? this.account?.address
observer(playerAddress) == IF playerAddress # Undefined THEN playerAddress ELSE account

NoError == "no error"

\* one check for both conditions, with one message
coinResultErrorMerged(room) ==
  IF room.isActive \/ room.winner = ZERO_ADDRESS THEN ErrCoinNotCompleted ELSE NoError

\* the two checks made in the other order
coinResultErrorSwapped(room) ==
  IF room.winner = ZERO_ADDRESS THEN ErrCoinCancelled
  ELSE IF room.isActive THEN ErrCoinNotCompleted
  ELSE NoError

\* the two checks getCoinFlipGameResult makes before deriving anything
coinResultError(room) ==
  IF room.isActive THEN ErrCoinNotCompleted
  ELSE IF room.winner = ZERO_ADDRESS THEN ErrCoinCancelled
  ELSE NoError

\* the fee rounded up to the next unit
houseFeeRoundedUp(totalPot, feeBps) == (totalPot * feeBps + 9999) \div 10000

\* fee = (totalPot * feeBps) / 10000n
houseFee(totalPot, feeBps) == (totalPot * feeBps) \div 10000

\* the observer taken for a participant whoever they are
netChangeOfAnyone(isPlayer, didIWin, payout, betAmount) ==
  IF didIWin THEN payout - betAmount ELSE 0 - betAmount

\* netChange: 0n unless the observer is a participant
netChangeOf(isPlayer, didIWin, payout, betAmount) ==
  IF isPlayer
    THEN (IF didIWin THEN payout - betAmount ELSE 0 - betAmount)
    ELSE 0

\* the two sides exchanged
coinResultOfInverted(randomWord) == IF randomWord % 2 = 0 THEN "tails" ELSE "heads"

\* coinResult = room.randomWord % 2n === 0n ? "heads" : "tails"
coinResultOf(randomWord) == IF randomWord % 2 = 0 THEN "heads" ELSE "tails"

\* getCoinFlipGameResult, given the room record read and the observer
getCoinFlipGameResult(room, player) ==
  IF coinResultError(room) # NoError THEN Failure(coinResultError(room))
  ELSE
    LET winner   == room.winner
        loser    == IF winner = room.playerA THEN room.playerB ELSE room.playerA
        totalPot == room.betAmount * 2
        fee      == houseFee(totalPot, room.houseEdgeBps)
        payout   == totalPot - fee
        hasPlayer == player # Undefined
        didIWin  == IF hasPlayer THEN toLowerCase(winner) = toLowerCase(player) ELSE FALSE
        isPlayer == hasPlayer /\ (toLowerCase(player) = toLowerCase(room.playerA)
                                  \/ toLowerCase(player) = toLowerCase(room.playerB))
        netChange == netChangeOf(isPlayer, didIWin, payout, room.betAmount)
        coinResult == coinResultOf(room.randomWord)
        payoutFormatted == formatTokens(payout)
        netFormatted == formatTokens(IF netChange < 0 THEN 0 - netChange ELSE netChange)
        summary ==
          IF ~hasPlayer
            THEN [form |-> "Coin landed. Winner won", coin |-> coinResult,
                  who |-> slice10(winner), amount |-> payoutFormatted, net |-> formatTokens(0)]
          ELSE IF didIWin
            THEN [form |-> "You WON", coin |-> coinResult,
                  who |-> "you", amount |-> payoutFormatted, net |-> netFormatted]
          ELSE IF isPlayer
            THEN [form |-> "You LOST", coin |-> coinResult,
                  who |-> slice10(winner), amount |-> netFormatted, net |-> netFormatted]
            ELSE [form |-> "Coin landed. Winner won", coin |-> coinResult,
                  who |-> slice10(winner), amount |-> payoutFormatted, net |-> formatTokens(0)]
    IN Success([roomId |-> room.id, didIWin |-> didIWin, winner |-> winner, loser |-> loser,
                playerA |-> room.playerA, playerB |-> room.playerB,
                betAmount |-> room.betAmount, payout |-> payout, fee |-> fee,
                netChange |-> netChange, randomWord |-> room.randomWord,
                coinResult |-> coinResult, summary |-> summary,
                completedAt |-> room.completedAt, isHouseGame |-> room.isHouseGame])

\* players.some(p => p.toLowerCase() === player.toLowerCase())
isInGame(players, player) ==
  \E i \in 1..Len(players) : toLowerCase(players[i]) = toLowerCase(player)

\* the check getDiceGameResult makes once the room and its players are read
diceNotCompleted(room) == room.isActive \/ room.winner = ZERO_ADDRESS

\* the number read whoever the observer is
diceNeedsNumberAlways(players, player) == TRUE

\* the number read for every observer known, participant or not
diceNeedsNumberOfObserver(players, player) == player # Undefined

\* whether getDiceGameResult reads the observer's number from the ledger
diceNeedsNumber(players, player) == player # Undefined /\ isInGame(players, player)

\* the pot taken over the seats of the room
dicePotOfSeats(room) == room.betAmount * room.maxPlayers

\* totalPot = room.betAmount * BigInt(room.currentPlayers)
dicePot(room) == room.betAmount * room.currentPlayers

\* getDiceGameResult, given the room record, the player list, the observer
\* and the number read for the observer (0 when it was not read)
getDiceGameResult(room, players, player, myNumber) ==
  IF diceNotCompleted(room) THEN Failure(ErrDiceNotCompleted)
  ELSE
    LET totalPot == dicePot(room)
        fee      == houseFee(totalPot, 500)
        payout   == totalPot - fee
        hasPlayer == player # Undefined
        didIWin  == IF hasPlayer THEN toLowerCase(room.winner) = toLowerCase(player) ELSE FALSE
        inGame   == hasPlayer /\ isInGame(players, player)
        netChange == netChangeOf(inGame, didIWin, payout, room.betAmount)
        payoutFormatted == formatTokens(payout)
        summary ==
          IF ~hasPlayer
            THEN [form |-> "Number won! Winner won", number |-> room.winningNumber,
                  who |-> slice10(room.winner), amount |-> payoutFormatted, picked |-> 0]
          ELSE IF didIWin
            THEN [form |-> "Number won! You WON", number |-> room.winningNumber,
                  who |-> "you", amount |-> payoutFormatted, picked |-> 0]
          ELSE IF inGame
            THEN [form |-> "Number won. You LOST", number |-> room.winningNumber,
                  who |-> "you", amount |-> formatTokens(0), picked |-> myNumber]
            ELSE [form |-> "Number won! Winner", number |-> room.winningNumber,
                  who |-> slice10(room.winner), amount |-> formatTokens(0), picked |-> 0]
    IN Success([roomId |-> room.id, didIWin |-> didIWin, winner |-> room.winner,
                winningNumber |-> room.winningNumber, myNumber |-> myNumber,
                playerCount |-> room.currentPlayers, players |-> players,
                betAmount |-> room.betAmount, payout |-> payout, fee |-> fee,
                netChange |-> netChange, randomWord |-> 0, summary |-> summary,
                completedAt |-> room.completedAt])

-----------------------------------------------------------------------------
(* The ledger: one CoinFlip room and one Dice room, changed only by the    *)
(* players and the oracle, never by the operations of this client.         *)

BetAmounts == {1000000}

NoRoom == [id |-> 0]

coinWaiting(r)   == r.isActive /\ r.playerB = ZERO_ADDRESS /\ r.winner = ZERO_ADDRESS
coinSettling(r)  == r.playerB # ZERO_ADDRESS /\ r.winner = ZERO_ADDRESS

diceWaiting(r)   == r.isActive /\ ~r.hasStarted /\ r.winner = ZERO_ADDRESS
diceSettling(r)  == r.hasStarted /\ r.winner = ZERO_ADDRESS

Sessions == {1, 2}

\* the rooms of the scenario are those some session waits on
Watched(kind) == \E s \in Sessions : sess[s].pc # "unused" /\ sess[s].kind = kind

\* some call is still to be made or in progress
Running == \E s \in Sessions : sess[s].pc \notin {"unused", "done", "failed"}

InitCoin(bet) ==
  [id |-> 1, playerA |-> "0xAa", playerB |-> ZERO_ADDRESS, betAmount |-> bet,
   isActive |-> TRUE, winner |-> ZERO_ADDRESS, isHouseGame |-> FALSE,
   completedAt |-> 0, randomWord |-> 0, houseEdgeBps |-> 500]

InitDice(bet) ==
  [room |-> [id |-> 2, creator |-> "0xAa", betAmount |-> bet, maxPlayers |-> 3,
             currentPlayers |-> 1, isActive |-> TRUE, hasStarted |-> FALSE,
             winningNumber |-> 0, winner |-> ZERO_ADDRESS, completedAt |-> 0],
   players |-> <<"0xAa">>, numbers |-> <<4>>]

\* an opponent joins the CoinFlip room: the randomness request is issued
LedgerCoinJoin ==
  /\ Watched("coinflip")
  /\ coinWaiting(coin)
  /\ coin' = [coin EXCEPT !.playerB = "0xBb"]
  /\ UNCHANGED <<now, dice, account, sess, call>>

\* the creator cancels the CoinFlip room before anyone joined
LedgerCoinCancel ==
  /\ Watched("coinflip")
  /\ coinWaiting(coin)
  /\ coin' = [coin EXCEPT !.isActive = FALSE]
  /\ UNCHANGED <<now, dice, account, sess, call>>

\* a room being settled stops being active before its winner is recorded
LedgerCoinClose ==
  /\ Watched("coinflip")
  /\ coinSettling(coin) /\ coin.isActive
  /\ coin' = [coin EXCEPT !.isActive = FALSE]
  /\ UNCHANGED <<now, dice, account, sess, call>>

\* the oracle's callback records the random word and the winner
LedgerCoinSettle ==
  /\ Watched("coinflip")
  /\ coinSettling(coin)
  /\ \E w \in 0..MaxRandomWord, win \in {coin.playerA, coin.playerB} :
       coin' = [coin EXCEPT !.isActive = FALSE, !.randomWord = w,
                            !.winner = win, !.completedAt = 1]
  /\ UNCHANGED <<now, dice, account, sess, call>>

\* a player joins the Dice room; the join that fills it starts the game
LedgerDiceJoin ==
  /\ Watched("dice")
  /\ diceWaiting(dice.room)
  /\ dice.room.currentPlayers < dice.room.maxPlayers
  /\ LET n == dice.room.currentPlayers + 1
         p == IF n = 2 THEN "0xBb" ELSE "0xCc"
     IN dice' = [room |-> [dice.room EXCEPT !.currentPlayers = n,
                                            !.hasStarted = (n = dice.room.maxPlayers)],
                 players |-> Append(dice.players, p),
                 numbers |-> Append(dice.numbers, n)]
  /\ UNCHANGED <<now, coin, account, sess, call>>

\* the creator starts the Dice game before the room is full
LedgerDiceStart ==
  /\ Watched("dice")
  /\ diceWaiting(dice.room)
  /\ dice.room.currentPlayers >= 2
  /\ dice' = [dice EXCEPT !.room.hasStarted = TRUE]
  /\ UNCHANGED <<now, coin, account, sess, call>>

\* the creator cancels the Dice room before the game started
LedgerDiceCancel ==
  /\ Watched("dice")
  /\ diceWaiting(dice.room)
  /\ dice' = [dice EXCEPT !.room.isActive = FALSE]
  /\ UNCHANGED <<now, coin, account, sess, call>>

\* the oracle's callback records the winning number and the winner
LedgerDiceSettle ==
  /\ Watched("dice")
  /\ diceSettling(dice.room)
  /\ \E i \in 1..Len(dice.players) :
       dice' = [dice EXCEPT !.room.isActive = FALSE,
                            !.room.winner = dice.players[i],
                            !.room.winningNumber = dice.numbers[i],
                            !.room.completedAt = 1]
  /\ UNCHANGED <<now, coin, account, sess, call>>

Ledger ==
  \/ LedgerCoinJoin \/ LedgerCoinCancel \/ LedgerCoinClose \/ LedgerCoinSettle
  \/ LedgerDiceJoin \/ LedgerDiceStart \/ LedgerDiceCancel \/ LedgerDiceSettle

\* wall-clock time passes (Date.now() advances)
\* how long the clock is followed
Horizon ==
  IF \A s \in Sessions : sess[s].pc # "unused" THEN MaxTimeTwo ELSE MaxTime

Tick ==
  /\ Running
  /\ \E d \in ClockSteps : now + d <= Horizon /\ now' = now + d
  /\ UNCHANGED <<coin, dice, account, sess, call>>

-----------------------------------------------------------------------------
(* Waiting sessions: one run each of waitForCoinFlipResult or              *)
(* waitForDiceResult.  A session's record holds the locals of the call     *)
(* (timeout, pollInterval, onProgress, startTime, room), its position (pc) *)
(* and what an observer of the call sees (reads, notifications, outcome).  *)

Kinds == {"coinflip", "dice"}

\* onProgress is not given, returns normally, or throws
Callbacks == {"absent", "returns", "throws"}

\* the (timeout, pollInterval) pairs sessions are started with
OptionSet ==
  { [timeout |-> 10000, pollInterval |-> 2000],
    [timeout |-> 3000,  pollInterval |-> 2000],
    [timeout |-> 0,     pollInterval |-> 1000] }

NoResult == [ok |-> FALSE, error |-> "none"]
NoMsg    == [text |-> "", cur |-> 0, max |-> 0]

IdleSession ==
  [pc |-> "idle", kind |-> "coinflip", timeout |-> 0, pollInterval |-> 0,
   onProgress |-> "absent", startTime |-> 0, room |-> NoRoom,
   stage |-> "", grRoom |-> NoRoom, grPlayers |-> <<>>,
   result |-> NoResult, inFlight |-> 0, reads |-> 0, pollReads |-> 0,
   progress |-> 0, lastMsg |-> NoMsg, failedReads |-> 0, issuedFrom |-> "idle",
   sleptFull |-> TRUE,
   sleepAt |-> 0, tickAt |-> 0, endAt |-> 0, exact |-> TRUE]

\* the loop condition with <= for <
withinTimeoutInclusive(elapsed, timeout) == elapsed <= timeout

\* the loop condition: Date.now() - startTime < timeout
withinTimeout(elapsed, timeout) == elapsed < timeout

\* the test with the negation of isActive dropped
gameCompletedNegationDropped(room) == room.isActive /\ room.winner # ZERO_ADDRESS

\* "game completed" as the waiters test it on the room just read
gameCompleted(room) == ~room.isActive /\ room.winner # ZERO_ADDRESS

\* the test with playerB compared the wrong way
roomCancelledWrongField(room) ==
  ~room.isActive /\ room.winner = ZERO_ADDRESS /\ room.playerB # ZERO_ADDRESS

\* "room was cancelled" as waitForCoinFlipResult tests it
roomCancelled(room) ==
  ~room.isActive /\ room.winner = ZERO_ADDRESS /\ room.playerB = ZERO_ADDRESS

\* whether a waiter tests the room it read for cancellation
checksCancelled(kind) == kind = "coinflip"

\* the status text chosen by whether the room is still active
progressMessageByActive(kind, room) ==
  IF kind = "coinflip"
    THEN IF room.isActive
           THEN [text |-> "Waiting for opponent to join...", cur |-> 0, max |-> 0]
           ELSE [text |-> "Opponent joined! Waiting for VRF result...", cur |-> 0, max |-> 0]
    ELSE IF room.isActive
           THEN [text |-> "Waiting for players (cur/max)...",
                 cur |-> room.currentPlayers, max |-> room.maxPlayers]
           ELSE [text |-> "Game started! Waiting for VRF result...", cur |-> 0, max |-> 0]

\* the status text handed to onProgress
progressMessage(kind, room) ==
  IF kind = "coinflip"
    THEN IF room.playerB = ZERO_ADDRESS
           THEN [text |-> "Waiting for opponent to join...", cur |-> 0, max |-> 0]
           ELSE [text |-> "Opponent joined! Waiting for VRF result...", cur |-> 0, max |-> 0]
    ELSE IF ~room.hasStarted
           THEN [text |-> "Waiting for players (cur/max)...",
                 cur |-> room.currentPlayers, max |-> room.maxPlayers]
           ELSE [text |-> "Game started! Waiting for VRF result...", cur |-> 0, max |-> 0]

timeoutError(kind) == IF kind = "coinflip" THEN ErrCoinTimeout ELSE ErrDiceTimeout

\* the number of reads in flight once one more read has been issued
issueRead(inFlight) == inFlight + 1

\* the session ends by throwing msg
Throw(st, msg) ==
  [st EXCEPT !.pc = "failed", !.result = Failure(msg), !.endAt = now]

\* the session ends by returning res (or by throwing, when the derivation failed)
Return(st, res) ==
  [st EXCEPT !.pc = IF res.ok THEN "done" ELSE "failed", !.result = res, !.endAt = now]

\* the elapsed time taken without subtracting startTime
elapsedFromEpoch(clock, startTime) == clock

\* Date.now() - startTime
elapsed(clock, startTime) == clock - startTime

\* top of the while loop: either the timeout has passed, or the room is read
LoopTop(st, afterSleep) ==
  IF withinTimeout(elapsed(now, st.startTime), st.timeout)
    THEN [st EXCEPT !.pc = "polling", !.inFlight = issueRead(@), !.issuedFrom = st.pc,
                    !.reads = @ + 1, !.pollReads = @ + 1, !.tickAt = now,
                    !.sleptFull = IF afterSleep THEN now - st.sleepAt >= st.pollInterval
                                  ELSE @,
                    !.exact = IF afterSleep THEN @ /\ (now - st.tickAt = st.pollInterval)
                              ELSE @]
    ELSE [Throw(st, timeoutError(st.kind))
            EXCEPT !.exact = IF afterSleep THEN @ /\ (now - st.tickAt = st.pollInterval)
                             ELSE @]

\* the body of a waiter as a do-while loop: the first read is issued before
\* the timeout is tested
EnterReadsFirst(st, o, cb) ==
  [st EXCEPT !.timeout = o.timeout, !.pollInterval = o.pollInterval,
             !.onProgress = cb, !.startTime = now, !.tickAt = now,
             !.pc = "polling", !.inFlight = issueRead(@), !.issuedFrom = st.pc,
             !.reads = @ + 1, !.pollReads = @ + 1]

\* the body of a waiter up to its first await: the options are read,
\* startTime is taken and the loop is entered
Enter(st, o, cb) ==
  LoopTop([st EXCEPT !.timeout = o.timeout, !.pollInterval = o.pollInterval,
                     !.onProgress = cb, !.startTime = now, !.tickAt = now],
          FALSE)

\* the call with startTime kept in a field of the client that every running
\* call reads
StartSharedClock(s, options, callbacks) ==
  /\ sess[s].pc = "idle"
  /\ now <= MaxStart
  /\ \E o \in options, cb \in callbacks :
       sess' = [t \in Sessions |->
                 IF t = s THEN Enter(sess[s], o, cb)
                 ELSE IF sess[t].pc \in {"polling", "sleeping", "deriving"}
                   THEN [sess[t] EXCEPT !.startTime = now]
                 ELSE sess[t]]
  /\ UNCHANGED <<now, coin, dice, account, call>>

\* waitForCoinFlipResult / waitForDiceResult is called
Start(s, options, callbacks) ==
  /\ sess[s].pc = "idle"
  /\ now <= MaxStart
  /\ \E o \in options, cb \in callbacks :
       sess' = [sess EXCEPT ![s] = Enter(sess[s], o, cb)]
  /\ UNCHANGED <<now, coin, dice, account, call>>

\* getPlayerNumber(roomId, target) on the ledger: the number the player chose
playerNumber(d, target) ==
  IF \E j \in 1..Len(d.players) : d.players[j] = target
    THEN d.numbers[CHOOSE j \in 1..Len(d.players) : d.players[j] = target]
  ELSE IF isInGame(d.players, target)
    THEN d.numbers[CHOOSE j \in 1..Len(d.players) :
                     toLowerCase(d.players[j]) = toLowerCase(target)]
  ELSE 0

\* a whole call getDiceGameResult(roomId, playerAddress) whose reads all
\* return the same ledger record d
diceGameResultOf(d, playerAddress) ==
  LET player     == observer(playerAddress)
      readNumber == ~diceNotCompleted(d.room) /\ diceNeedsNumber(d.players, player)
  IN  \* getPlayerDiceNumber throws when it is given no address
      IF readNumber /\ player = Undefined THEN Failure(ErrNoAddress)
      ELSE getDiceGameResult(d.room, d.players, player,
                             IF readNumber THEN playerNumber(d, player) ELSE 0)

\* the ledger reads a whole call getDiceGameResult(roomId, playerAddress)
\* issues, in order, when each of them returns
diceReadsOf(d, playerAddress) ==
  LET player == observer(playerAddress) IN
    IF ~diceNotCompleted(d.room) /\ diceNeedsNumber(d.players, player) /\ player # Undefined
      THEN <<"getDiceRoom", "getDiceRoomPlayers", "getPlayerNumber">>
      ELSE <<"getDiceRoom", "getDiceRoomPlayers">>

\* the room a read returns: the ledger's record of the room of that game
ledgerRoom(kind) == IF kind = "coinflip" THEN coin ELSE dice.room

\* getCoinFlipGameResult(roomId) / getDiceGameResult(roomId) is entered:
\* its first read of the room is issued
EnterGameResult(st, room) ==
  [st EXCEPT !.pc = "deriving", !.stage = "room", !.room = room,
             !.inFlight = issueRead(@ - 1), !.reads = @ + 1, !.issuedFrom = st.pc]

\* the rest of a loop iteration after a room that is neither completed nor
\* cancelled: onProgress is called if given, then the sleep is started
ReportAndSleep(st, room) ==
  LET told == [st EXCEPT !.room = room, !.inFlight = @ - 1,
                         !.progress = IF st.onProgress = "absent" THEN @ ELSE @ + 1,
                         !.lastMsg = IF st.onProgress = "absent" THEN @
                                     ELSE progressMessage(st.kind, room)]
  IN IF st.onProgress = "throws"
       THEN Throw(told, ErrCallback)
       ELSE [told EXCEPT !.pc = "sleeping", !.sleepAt = now]

\* the read of the loop returns a room record
OnRoom(st, room) ==
  IF gameCompleted(room) THEN EnterGameResult(st, room)
  ELSE IF checksCancelled(st.kind) /\ roomCancelled(room)
    THEN Throw([st EXCEPT !.room = room, !.inFlight = @ - 1], ErrRoomCancelled)
  ELSE ReportAndSleep(st, room)

\* await this.getCoinFlipRoom(roomId) / getDiceRoom(roomId) in the loop returns
PollReturn(s) ==
  /\ sess[s].pc = "polling"
  /\ sess' = [sess EXCEPT ![s] = OnRoom(sess[s], ledgerRoom(sess[s].kind))]
  /\ UNCHANGED <<now, coin, dice, account, call>>

\* the exception of a read caught and taken for "still waiting"
onReadErrorRetry(st) ==
  [st EXCEPT !.inFlight = @ - 1, !.pc = "sleeping", !.sleepAt = now]

\* an awaited read rejects: nothing catches the exception, it leaves the call
onReadError(st) == Throw([st EXCEPT !.inFlight = @ - 1], ErrRead)

\* a ledger read of the session fails
ReadFails(s) ==
  /\ sess[s].pc \in {"polling", "deriving"}
  /\ sess' = [sess EXCEPT ![s] = onReadError([sess[s] EXCEPT !.failedReads = @ + 1])]
  /\ UNCHANGED <<now, coin, dice, account, call>>

\* a timer whose callback never resolves the promise of the sleep
timerNeverFires(clock, sleepAt, pollInterval) == FALSE

\* a timer set without its delay
timerFiredAtOnce(clock, sleepAt, pollInterval) == clock >= sleepAt

\* setTimeout(resolve, pollInterval) fires no earlier than pollInterval after
\* it was set
timerFired(clock, sleepAt, pollInterval) == clock >= sleepAt + pollInterval

\* the timer of the sleep fires and the loop condition is evaluated again
SleepReturn(s) ==
  /\ sess[s].pc = "sleeping"
  /\ timerFired(now, sess[s].sleepAt, sess[s].pollInterval)
  /\ sess' = [sess EXCEPT ![s] = LoopTop(sess[s], TRUE)]
  /\ UNCHANGED <<now, coin, dice, account, call>>

\* a read made by getCoinFlipGameResult / getDiceGameResult returns
OnDeriveRead(st) ==
  IF st.kind = "coinflip"
    THEN Return([st EXCEPT !.inFlight = @ - 1, !.stage = ""],
                getCoinFlipGameResult(coin, observer(Undefined)))
  ELSE IF st.stage = "room"
    THEN [st EXCEPT !.stage = "players", !.grRoom = dice.room,
                    !.inFlight = issueRead(@ - 1), !.reads = @ + 1, !.issuedFrom = st.pc]
  ELSE IF st.stage = "players"
    THEN IF diceNotCompleted(st.grRoom)
           THEN Throw([st EXCEPT !.inFlight = @ - 1, !.grPlayers = dice.players],
                      ErrDiceNotCompleted)
         ELSE IF diceNeedsNumber(dice.players, observer(Undefined))
           THEN [st EXCEPT !.stage = "number", !.grPlayers = dice.players,
                           !.inFlight = issueRead(@ - 1), !.reads = @ + 1,
                           !.issuedFrom = st.pc]
         ELSE Return([st EXCEPT !.inFlight = @ - 1, !.grPlayers = dice.players, !.stage = ""],
                     getDiceGameResult(st.grRoom, dice.players, observer(Undefined), 0))
  ELSE Return([st EXCEPT !.inFlight = @ - 1, !.stage = ""],
              getDiceGameResult(st.grRoom, st.grPlayers, observer(Undefined),
                                playerNumber(dice, observer(Undefined))))

DeriveReturn(s) ==
  /\ sess[s].pc = "deriving"
  /\ sess' = [sess EXCEPT ![s] = OnDeriveRead(sess[s])]
  /\ UNCHANGED <<now, coin, dice, account, call>>

SessionStep(s) ==
  \/ Start(s, OptionSet, Callbacks) \/ PollReturn(s) \/ ReadFails(s) \/ SleepReturn(s) \/ DeriveReturn(s)

-----------------------------------------------------------------------------
(* Specification of one waiting session against the changing ledger.       *)

\* the wallet address of the client (this.account?.address), if it has one
Wallets == {Undefined, "0xaa"}

NoCall == [fn |-> "none"]

Init ==
  /\ now = 0
  /\ \E bet \in BetAmounts : coin = InitCoin(bet) /\ dice = InitDice(bet)
  /\ account \in Wallets
  /\ \E k \in Kinds :
       sess = [s \in Sessions |-> IF s = 1 THEN [IdleSession EXCEPT !.kind = k]
                                           ELSE [IdleSession EXCEPT !.pc = "unused"]]
  /\ call = NoCall

Next == Tick \/ Ledger \/ SessionStep(1)

Spec == Init /\ [][Next]_vars

-----------------------------------------------------------------------------
(* Specification of one waiting session started with a timeout that is     *)
(* negative, zero, one millisecond, or a few seconds, on a room that may   *)
(* already have been joined, settled or cancelled when the call is made.   *)

TightOptions ==
  { [timeout |-> -1000, pollInterval |-> 1000],
    [timeout |-> 0,     pollInterval |-> 2000],
    [timeout |-> 1,     pollInterval |-> 2000],
    [timeout |-> 3000,  pollInterval |-> 2000] }

\* the ledger is followed until the session has ended
LedgerWhileRunning == Running /\ Ledger

NextTight ==
  \/ Tick \/ LedgerWhileRunning
  \/ Start(1, TightOptions, Callbacks)
  \/ PollReturn(1) \/ ReadFails(1) \/ SleepReturn(1) \/ DeriveReturn(1)

SpecTight == Init /\ [][NextTight]_vars

-----------------------------------------------------------------------------
(* Specification of one waiting session whose reads all return and whose   *)
(* clock advances: the event loop resumes the call whenever the promise it *)
(* awaits (a read, the sleep's timer) is resolved.  The ledger is under no *)
(* obligation to move: a room may stay Waiting or Settling forever.        *)

\* the longest an awaited read stays in flight, and the most a timer fires
\* late (milliseconds)
MaxDelay == 4000

\* the session awaits something that takes time still to come
AwaitsTime(st) ==
  \/ st.pc = "idle" /\ now <= MaxStart
  \/ st.pc \in {"polling", "deriving"} /\ now - st.tickAt < MaxDelay
  \/ st.pc = "sleeping" /\ now < st.sleepAt + st.pollInterval + MaxDelay

\* wall-clock time passes while the session awaits
TickLive ==
  /\ \E s \in Sessions : AwaitsTime(sess[s])
  /\ \E d \in ClockSteps : now' = now + d
  /\ UNCHANGED <<coin, dice, account, sess, call>>

NextLive ==
  \/ TickLive \/ Ledger
  \/ Start(1, OptionSet, Callbacks)
  \/ PollReturn(1) \/ SleepReturn(1) \/ DeriveReturn(1)

SpecLive ==
  /\ Init /\ [][NextLive]_vars
  /\ WF_vars(TickLive)
  /\ WF_vars(PollReturn(1))
  /\ WF_vars(SleepReturn(1))
  /\ WF_vars(DeriveReturn(1))

-----------------------------------------------------------------------------
(* Specification of two waiting sessions running concurrently, on the same *)
(* room or on different rooms.                                             *)

ConcOptions ==
  { [timeout |-> 3000, pollInterval |-> 2000],
    [timeout |-> 0,    pollInterval |-> 1000] }

\* the games of the two sessions: the same room twice, or one room of each game
KindPairs == {<<"coinflip", "coinflip">>, <<"dice", "dice">>, <<"coinflip", "dice">>}

InitConc ==
  /\ now = 0
  /\ \E bet \in BetAmounts : coin = InitCoin(bet) /\ dice = InitDice(bet)
  /\ account = "0xaa"
  /\ \E k \in KindPairs :
       sess = [s \in Sessions |-> [IdleSession EXCEPT !.kind = k[s]]]
  /\ call = NoCall

ConcStep(s) ==
  \/ Start(s, ConcOptions, {"returns"}) \/ PollReturn(s) \/ ReadFails(s) \/ SleepReturn(s)
  \/ DeriveReturn(s)

NextConc == Tick \/ Ledger \/ \E s \in Sessions : ConcStep(s)

SpecConc == InitConc /\ [][NextConc]_vars

-----------------------------------------------------------------------------
(* Specification of two calls of the same waiter made at the same moment   *)
(* with the same timeout and pollInterval, whose reads return the same     *)
(* records at the same clock values; only their onProgress may differ.     *)

InitTogether ==
  /\ now = 0
  /\ \E bet \in BetAmounts : coin = InitCoin(bet) /\ dice = InitDice(bet)
  /\ account \in Wallets
  /\ \E k \in Kinds : sess = [s \in Sessions |-> [IdleSession EXCEPT !.kind = k]]
  /\ call = NoCall

At(pcs) == {s \in Sessions : sess[s].pc \in pcs}

StartTogether ==
  /\ At({"idle"}) = Sessions
  /\ now <= MaxStart
  /\ \E o \in ConcOptions, cb \in [Sessions -> Callbacks] :
       sess' = [s \in Sessions |-> Enter(sess[s], o, cb[s])]
  /\ UNCHANGED <<now, coin, dice, account, call>>

PollReturnTogether ==
  /\ At({"polling"}) # {}
  /\ sess' = [s \in Sessions |->
               IF sess[s].pc = "polling"
                 THEN OnRoom(sess[s], ledgerRoom(sess[s].kind)) ELSE sess[s]]
  /\ UNCHANGED <<now, coin, dice, account, call>>

ReadFailsTogether ==
  /\ At({"polling", "deriving"}) # {}
  /\ sess' = [s \in Sessions |->
               IF sess[s].pc \in {"polling", "deriving"}
                 THEN onReadError([sess[s] EXCEPT !.failedReads = @ + 1]) ELSE sess[s]]
  /\ UNCHANGED <<now, coin, dice, account, call>>

SleepReturnTogether ==
  /\ At({"sleeping"}) # {}
  /\ \A s \in At({"sleeping"}) : timerFired(now, sess[s].sleepAt, sess[s].pollInterval)
  /\ sess' = [s \in Sessions |->
               IF sess[s].pc = "sleeping" THEN LoopTop(sess[s], TRUE) ELSE sess[s]]
  /\ UNCHANGED <<now, coin, dice, account, call>>

DeriveReturnTogether ==
  /\ At({"deriving"}) # {}
  /\ sess' = [s \in Sessions |->
               IF sess[s].pc = "deriving" THEN OnDeriveRead(sess[s]) ELSE sess[s]]
  /\ UNCHANGED <<now, coin, dice, account, call>>

NextTogether ==
  \/ Tick \/ Ledger
  \/ StartTogether \/ PollReturnTogether \/ ReadFailsTogether
  \/ SleepReturnTogether \/ DeriveReturnTogether

SpecTogether == InitTogether /\ [][NextTogether]_vars

-----------------------------------------------------------------------------
(* Specification of the derivations called directly on arbitrary room      *)
(* records.                                                                *)

\* the room records getCoinFlipRoom may return
\* the economic terms of a CoinFlip room: <<betAmount, houseEdgeBps>>
CoinTerms ==
  { <<1000000, 500>>, <<1000000, 333>>, <<3, 500>>,
    <<200, 333>>, <<200, 5000>>, <<200, 10000>> }

CoinRecords ==
  { [id |-> 1, playerA |-> "0xAa", playerB |-> b, betAmount |-> t[1],
     isActive |-> a, winner |-> w, isHouseGame |-> FALSE, completedAt |-> 1,
     randomWord |-> rw, houseEdgeBps |-> t[2]] :
      b \in {ZERO_ADDRESS, "0xBb", "0xbb"}, t \in CoinTerms, a \in BOOLEAN,
      w \in {ZERO_ADDRESS, "0xAa", "0xaa", "0xBb"},
      rw \in 0..MaxRandomWord \cup {6, 7} }

\* the records getDiceRoom, getDiceRoomPlayers and getPlayerDiceNumber may return
DiceRecords ==
  [room : [id : {2}, creator : {"0xAa"}, betAmount : {1000000, 3}, maxPlayers : {3},
           currentPlayers : {2, 3}, isActive : BOOLEAN, hasStarted : BOOLEAN,
           winningNumber : {0, 4}, winner : {ZERO_ADDRESS, "0xAa", "0xbb"},
           completedAt : {1}],
   players : {<<"0xAa", "0xBb">>, <<"0xAa", "0xBb", "0xCc">>},
   numbers : {<<4, 2, 6>>}]

\* the playerAddress argument of a direct call
Observers == {Undefined, "0xaa", "0xBb", "0xCc"}

InitDerive ==
  /\ now = 0
  /\ \/ coin \in CoinRecords /\ dice = InitDice(1000000)
     \/ coin = InitCoin(1000000) /\ dice \in DiceRecords
  /\ account \in Wallets
  /\ sess = [s \in Sessions |-> [IdleSession EXCEPT !.pc = "unused"]]
  /\ call = NoCall

\* what is kept of the call made before the latest one
Before(c) ==
  IF c.fn = "none" THEN NoCall
  ELSE [fn |-> c.fn, playerAddress |-> c.playerAddress, readOk |-> c.readOk,
        result |-> c.result]

\* getCoinFlipGameResult(roomId, playerAddress) is called; its read of the
\* room returns the ledger's record or fails
CallCoinFlipGameResult ==
  /\ \E pa \in Observers, readOk \in BOOLEAN :
       call' = [fn |-> "getCoinFlipGameResult", playerAddress |-> pa, readOk |-> readOk,
                result |-> IF readOk THEN getCoinFlipGameResult(coin, observer(pa))
                           ELSE Failure(ErrRead),
                reads |-> <<"getCoinFlipRoom">>,
                before |-> Before(call)]
  /\ UNCHANGED <<now, coin, dice, account, sess>>

\* getDiceGameResult(roomId, playerAddress) is called; its reads return the
\* ledger's records, or the first of them fails
CallDiceGameResult ==
  /\ \E pa \in Observers, readOk \in BOOLEAN :
       call' = [fn |-> "getDiceGameResult", playerAddress |-> pa, readOk |-> readOk,
                result |-> IF readOk THEN diceGameResultOf(dice, pa)
                           ELSE Failure(ErrRead),
                reads |-> IF readOk THEN diceReadsOf(dice, pa) ELSE <<"getDiceRoom">>,
                before |-> Before(call)]
  /\ UNCHANGED <<now, coin, dice, account, sess>>

NextDerive == CallCoinFlipGameResult \/ CallDiceGameResult

SpecDerive == InitDerive /\ [][NextDerive]_vars

-----------------------------------------------------------------------------
(* The write methods and the VRF cost estimation they rest on.  Here `call` *)
(* holds the one method call in progress: its arguments and locals, the     *)
(* ledger calls it has issued so far and its outcome.                       *)

\* calls made one after another on the same client
MaxCalls == 2

\* 1500000000n, the priority fee taken when the node reports none (1.5 gwei)
DEFAULT_PRIORITY_FEE == 1500000000

WriteMethods ==
  { "deposit", "withdraw", "approveTokens",
    "createCoinFlipRoom", "joinCoinFlipRoom", "cancelCoinFlipRoom",
    "createDiceRoom", "joinDiceRoom", "leaveDiceRoom", "cancelDiceRoom",
    "startDiceGame" }

\* the counts a caller of joinDiceRoom passes (JoinDiceRoomOptions)
JoinDiceOptions ==
  { [currentPlayers |-> 1, maxPlayers |-> 3], [currentPlayers |-> 2, maxPlayers |-> 3] }

NoOptions == [currentPlayers |-> 0, maxPlayers |-> 0]

\* what the node and the oracle may answer
GasLimits     == {100000}
FeeData       == [hasMax : BOOLEAN, max : {7, 1500000005}, hasPriority : BOOLEAN, priority : {0, 10}]
GasPrices     == {3, 1500000005}
OracleAnswers == {5, 9}

NoTx == [method |-> "none", paysVrf |-> FALSE, value |-> 0, maxFeePerGas |-> 0,
         maxPriorityFeePerGas |-> 0, gas |-> 0]

IdleCall ==
  [fn |-> "none", pc |-> "idle", n |-> 0, options |-> NoOptions, reads |-> <<>>,
   primaryFailed |-> FALSE, gasPrice |-> 0, callbackGasLimit |-> 0,
   maxFeePerGas |-> 0, maxPriorityFeePerGas |-> 0, safeMaxFeePerGas |-> 0,
   query |-> <<>>, answer |-> 0, estimated |-> FALSE, lastCost |-> 0,
   tx |-> NoTx, landed |-> "no", result |-> NoResult]

\* the call made next on the client: nothing of the call before is kept but
\* the count of calls and, for the properties, the last cost estimated
NewCall(fn, o) ==
  [IdleCall EXCEPT !.fn = fn, !.options = o, !.n = call.n + 1,
                   !.lastCost = IF call.estimated THEN call.answer ELSE call.lastCost]

\* the check left out
requireWalletSkipped == FALSE

\* requireWallet throws: !this.walletClient || !this.account
requireWalletFails == account = Undefined

\* whether the write pays for a randomness request, hence needs the estimate
needsVrfCost(fn, o) ==
  \/ fn \in {"joinCoinFlipRoom", "startDiceGame"}
  \/ fn = "joinDiceRoom" /\ o.currentPlayers + 1 = o.maxPlayers

\* value ?? fallback on a field that may be absent
orElse(has, value, fallback) == IF has THEN value ELSE fallback

\* floor(x * n / d) for x, n >= 0 and d > 0, the quotient that bigint
\* arithmetic gives exactly; it is taken by parts (x = q * d + r) so that no
\* intermediate value is larger than the quotient itself
mulDiv(x, n, d) == (x \div d) * n + ((x % d) * n) \div d

\* the buffer applied to maxFeePerGas as it is
bufferedMaxFeeUnraised(maxFeePerGas, maxPriorityFeePerGas) == mulDiv(maxFeePerGas, 140, 100)

\* safeMaxFeePerGas: the larger of the two fees, times 140n / 100n
bufferedMaxFee(maxFeePerGas, maxPriorityFeePerGas) ==
  mulDiv(IF maxFeePerGas > maxPriorityFeePerGas THEN maxFeePerGas ELSE maxPriorityFeePerGas,
         140, 100)

\* walletClient.writeContract(...) is called, then the receipt is awaited
Submit(c, tx) ==
  [c EXCEPT !.tx = tx, !.pc = "receipt", !.reads = Append(@, "waitForTransactionReceipt")]

\* a write that carries the estimate: value, maxFeePerGas, maxPriorityFeePerGas
SubmitWithVrfCost(c, cost) ==
  Submit(c, [method |-> c.fn, paysVrf |-> TRUE, value |-> cost,
             maxFeePerGas |-> c.safeMaxFeePerGas,
             maxPriorityFeePerGas |-> c.maxPriorityFeePerGas, gas |-> 1200000])

\* a write that carries no value (gas: 300_000n in joinDiceRoom, none elsewhere)
SubmitPlain(c) ==
  Submit(c, [NoTx EXCEPT !.method = c.fn,
                         !.gas = IF c.fn = "joinDiceRoom" THEN 300000 ELSE 0])

\* the exception of a read swallowed and the last known cost used in its place
onEstimateErrorUsesLastCost(c) ==
  IF c.fn = "estimateVrfCost"
    THEN [c EXCEPT !.pc = "done",
                   !.result = Success([cost |-> c.lastCost,
                                       maxFeePerGas |-> c.safeMaxFeePerGas,
                                       maxPriorityFeePerGas |-> c.maxPriorityFeePerGas])]
    ELSE SubmitWithVrfCost(c, c.lastCost)

\* a read of estimateVrfCost rejects outside the try block: the exception
\* leaves estimateVrfCost and the write method that awaited it
onEstimateError(c) == [c EXCEPT !.pc = "failed", !.result = Failure(ErrRead)]

\* estimateVrfCost is entered: vrfCallbackGasLimit is read
EnterEstimate(c) ==
  [c EXCEPT !.pc = "gasLimit", !.reads = Append(@, "vrfCallbackGasLimit")]

\* a write method up to its first await
BeginWrite(c) ==
  IF requireWalletFails THEN [c EXCEPT !.pc = "failed", !.result = Failure(ErrWallet)]
  ELSE IF needsVrfCost(c.fn, c.options) THEN EnterEstimate(c)
  ELSE SubmitPlain(c)

\* the fees are known: the buffered fee is computed and the oracle is asked
\* the price of a request of (callbackGasLimit, 1 word, safeMaxFeePerGas)
AskPrice(c, maxFee, priority) ==
  [c EXCEPT !.maxFeePerGas = maxFee, !.maxPriorityFeePerGas = priority,
            !.safeMaxFeePerGas = bufferedMaxFee(maxFee, priority),
            !.query = <<c.callbackGasLimit, 1, bufferedMaxFee(maxFee, priority)>>,
            !.pc = "price", !.reads = Append(@, "estimateRequestPriceNative")]

CallFree == call.pc \in {"idle", "done", "failed"} /\ call.n < MaxCalls

\* one of the write methods is called
CallWrite ==
  /\ CallFree
  /\ \E fn \in WriteMethods :
       \E o \in (IF fn = "joinDiceRoom" THEN JoinDiceOptions ELSE {NoOptions}) :
         call' = BeginWrite(NewCall(fn, o))
  /\ UNCHANGED <<now, coin, dice, account, sess>>

\* estimateVrfCost is called directly
CallEstimateVrfCost ==
  /\ CallFree
  /\ call' = EnterEstimate(NewCall("estimateVrfCost", NoOptions))
  /\ UNCHANGED <<now, coin, dice, account, sess>>

\* the read of vrfCallbackGasLimit returns or fails
GasLimitReturns ==
  /\ call.pc = "gasLimit"
  /\ \/ \E limit \in GasLimits :
          call' = [call EXCEPT !.callbackGasLimit = limit, !.pc = "fees",
                               !.reads = Append(@, "estimateFeesPerGas")]
     \/ call' = onEstimateError(call)
  /\ UNCHANGED <<now, coin, dice, account, sess>>

\* estimateFeesPerGas returns fee data, or fails and getGasPrice is asked
FeesReturn ==
  /\ call.pc = "fees"
  /\ \/ \E fd \in FeeData :
          call' = AskPrice(call, orElse(fd.hasMax, fd.max, 0),
                           orElse(fd.hasPriority, fd.priority, DEFAULT_PRIORITY_FEE))
     \/ call' = [call EXCEPT !.primaryFailed = TRUE, !.pc = "gasPrice",
                             !.reads = Append(@, "getGasPrice")]
  /\ UNCHANGED <<now, coin, dice, account, sess>>

\* the flat gas price taken for both fees
onGasPriceForBoth(c, g) == AskPrice([c EXCEPT !.gasPrice = g], g, g)

\* the catch block once getGasPrice has returned g: the priority fee is the
\* fixed 1500000000n and maxFeePerGas the larger of g and that
onGasPrice(c, g) ==
  AskPrice([c EXCEPT !.gasPrice = g],
           IF g > DEFAULT_PRIORITY_FEE THEN g ELSE DEFAULT_PRIORITY_FEE,
           DEFAULT_PRIORITY_FEE)

\* getGasPrice of the fallback returns or fails
GasPriceReturns ==
  /\ call.pc = "gasPrice"
  /\ \/ \E g \in GasPrices : call' = onGasPrice(call, g)
     \/ call' = onEstimateError(call)
  /\ UNCHANGED <<now, coin, dice, account, sess>>

\* the price taken as the go-ahead for a write, whoever asked for it
onPriceAlwaysSubmits(c, a) ==
  SubmitWithVrfCost([c EXCEPT !.answer = a, !.estimated = TRUE], a)

\* the oracle has answered a: estimateVrfCost returns { cost, maxFeePerGas,
\* maxPriorityFeePerGas }; called directly that is the result, within a write
\* method the write is submitted with it
onPrice(c, a) ==
  LET e == [c EXCEPT !.answer = a, !.estimated = TRUE] IN
    IF c.fn = "estimateVrfCost"
      THEN [e EXCEPT !.pc = "done",
                     !.result = Success([cost |-> a,
                                         maxFeePerGas |-> e.safeMaxFeePerGas,
                                         maxPriorityFeePerGas |-> e.maxPriorityFeePerGas])]
      ELSE SubmitWithVrfCost(e, a)

\* estimateRequestPriceNative returns the oracle's price or fails; with the
\* price estimateVrfCost returns, and the write that awaited it is submitted
PriceReturns ==
  /\ call.pc = "price"
  /\ \/ \E a \in OracleAnswers : call' = onPrice(call, a)
     \/ call' = onEstimateError(call)
  /\ UNCHANGED <<now, coin, dice, account, sess>>

\* waitForTransactionReceipt returns the receipt of the write, or fails
ReceiptReturns ==
  /\ call.pc = "receipt"
  /\ \/ call' = [call EXCEPT !.pc = "done", !.result = Success([hash |-> call.n])]
     \/ call' = [call EXCEPT !.pc = "failed", !.result = Failure(ErrRead)]
  /\ UNCHANGED <<now, coin, dice, account, sess>>

InitWrite ==
  /\ now = 0
  /\ \E bet \in BetAmounts : coin = InitCoin(bet) /\ dice = InitDice(bet)
  /\ account \in Wallets
  /\ sess = [s \in Sessions |-> [IdleSession EXCEPT !.pc = "unused"]]
  /\ call = IdleCall

NextWrite ==
  \/ CallWrite \/ CallEstimateVrfCost
  \/ GasLimitReturns \/ FeesReturn \/ GasPriceReturns \/ PriceReturns \/ ReceiptReturns

SpecWrite == InitWrite /\ [][NextWrite]_vars

-----------------------------------------------------------------------------
(* Specification of the operations that only observe: one waiting session, *)
(* and one direct call of getCoinFlipGameResult, getDiceGameResult or      *)
(* estimateVrfCost, made on the same client at any moment while the ledger *)
(* changes under them.                                                     *)

FrameOptions == { [timeout |-> 3000, pollInterval |-> 2000] }

InitFrame ==
  /\ now = 0
  /\ \E bet \in BetAmounts : coin = InitCoin(bet) /\ dice = InitDice(bet)
  /\ account = "0xaa"
  /\ \E k \in Kinds :
       sess = [s \in Sessions |-> IF s = 1 THEN [IdleSession EXCEPT !.kind = k]
                                           ELSE [IdleSession EXCEPT !.pc = "unused"]]
  /\ call = IdleCall

\* no direct call has been made yet
NoDirectCall == call.fn = "none"

\* the direct call made is estimateVrfCost
Estimating == call.fn = "estimateVrfCost"

NextFrame ==
  \/ Tick \/ Ledger
  \/ Start(1, FrameOptions, {"returns"})
  \/ PollReturn(1) \/ ReadFails(1) \/ SleepReturn(1) \/ DeriveReturn(1)
  \/ (NoDirectCall /\ CallCoinFlipGameResult)
  \/ (NoDirectCall /\ CallDiceGameResult)
  \/ (NoDirectCall /\ CallEstimateVrfCost)
  \/ (Estimating /\ GasLimitReturns)
  \/ (Estimating /\ FeesReturn)
  \/ (Estimating /\ GasPriceReturns)
  \/ (Estimating /\ PriceReturns)

SpecFrame == InitFrame /\ [][NextFrame]_vars

-----------------------------------------------------------------------------
(* Specification of one joinDiceRoom call made the documented way: the     *)
(* caller reads the room with getDiceRoom, passes the counts it read as    *)
(* options, and the join is executed by the ledger when its transaction is *)
(* mined.  Other players join and leave the same room at any moment.       *)

\* the players other than the creator and the caller
OtherPlayers == {"0xCc", "0xDd"}

\* the sequence without its i-th element
Remove(seq, i) == SubSeq(seq, 1, i - 1) \o SubSeq(seq, i + 1, Len(seq))

\* the ledger's record once player p has joined the room
diceJoined(d, p) ==
  LET n == d.room.currentPlayers + 1 IN
    [room    |-> [d.room EXCEPT !.currentPlayers = n,
                                !.hasStarted = (n = d.room.maxPlayers)],
     players |-> Append(d.players, p),
     numbers |-> Append(d.numbers, n)]

InitJoin ==
  /\ now = 0
  /\ \E bet \in BetAmounts :
       /\ coin = InitCoin(bet)
       /\ dice = [InitDice(bet) EXCEPT !.room.creator = "0xBb", !.players = <<"0xBb">>]
  /\ account = "0xaa"
  /\ sess = [s \in Sessions |-> [IdleSession EXCEPT !.pc = "unused"]]
  /\ call = IdleCall

\* another player joins the room
OtherJoins ==
  /\ diceWaiting(dice.room)
  /\ dice.room.currentPlayers < dice.room.maxPlayers
  /\ \E p \in OtherPlayers :
       /\ \A i \in 1..Len(dice.players) : dice.players[i] # p
       /\ dice' = diceJoined(dice, p)
  /\ UNCHANGED <<now, coin, account, sess, call>>

\* another player leaves the room before the game has started
OtherLeaves ==
  /\ diceWaiting(dice.room)
  /\ \E i \in 1..Len(dice.players) :
       /\ dice.players[i] \in OtherPlayers
       /\ dice' = [room    |-> [dice.room EXCEPT !.currentPlayers = @ - 1],
                   players |-> Remove(dice.players, i),
                   numbers |-> Remove(dice.numbers, i)]
  /\ UNCHANGED <<now, coin, account, sess, call>>

\* const room = await client.getDiceRoom(roomId): the caller keeps the counts
\* it will pass to joinDiceRoom
ReadDiceRoomForJoin ==
  /\ call.pc = "idle"
  /\ call' = [NewCall("getDiceRoom",
                      [currentPlayers |-> dice.room.currentPlayers,
                       maxPlayers     |-> dice.room.maxPlayers])
                EXCEPT !.pc = "read", !.reads = <<"getDiceRoom">>]
  /\ UNCHANGED <<now, coin, dice, account, sess>>

\* client.joinDiceRoom({roomId, currentPlayers: room.currentPlayers,
\* maxPlayers: room.maxPlayers}) with the counts read before
CallJoinDiceRoom ==
  /\ call.pc = "read"
  /\ call' = BeginWrite(NewCall("joinDiceRoom", call.options))
  /\ UNCHANGED <<now, coin, dice, account, sess>>

\* the transaction of the join is mined: on the room as it is then, the join
\* fills the room and starts the game, or takes one more seat, or is rejected
\* because the room is no longer open; a join that fills the room without
\* paying for the randomness request changes nothing on the ledger
LedgerExecutesJoin ==
  /\ call.pc = "receipt" /\ call.fn = "joinDiceRoom" /\ call.landed = "no"
  /\ IF ~diceWaiting(dice.room) \/ dice.room.currentPlayers >= dice.room.maxPlayers
       THEN call' = [call EXCEPT !.landed = "rejected"] /\ UNCHANGED dice
     ELSE IF dice.room.currentPlayers + 1 = dice.room.maxPlayers
       THEN /\ call' = [call EXCEPT !.landed = "filling"]
            /\ dice' = IF call.tx.paysVrf THEN diceJoined(dice, account) ELSE dice
     ELSE /\ call' = [call EXCEPT !.landed = "joining"]
          /\ dice' = diceJoined(dice, account)
  /\ UNCHANGED <<now, coin, account, sess>>

\* the receipt of the mined join is returned
JoinReceiptReturns == call.landed # "no" /\ ReceiptReturns

NextJoin ==
  \/ OtherJoins \/ OtherLeaves
  \/ ReadDiceRoomForJoin \/ CallJoinDiceRoom
  \/ GasLimitReturns \/ FeesReturn \/ GasPriceReturns \/ PriceReturns
  \/ LedgerExecutesJoin \/ JoinReceiptReturns

SpecJoin == InitJoin /\ [][NextJoin]_vars

-----------------------------------------------------------------------------
(* Vocabulary of the properties                                            *)

\* a room record as the properties classify it
Settled(r)   == r # NoRoom /\ ~r.isActive /\ r.winner # ZERO_ADDRESS
Cancelled(r) == r # NoRoom /\ ~r.isActive /\ r.winner = ZERO_ADDRESS

TimedOut(st) ==
  st.pc = "failed" /\ st.result.error \in {ErrCoinTimeout, ErrDiceTimeout}

\* the room of the session's game is still Waiting on the ledger
StillWaiting(st) ==
  IF st.kind = "coinflip" THEN coinWaiting(coin) ELSE diceWaiting(dice.room)

\* what the derivation called directly gives on the settled record
DirectDerivation(st) ==
  IF st.kind = "coinflip"
    THEN getCoinFlipGameResult(st.room, observer(Undefined))
    ELSE diceGameResultOf([dice EXCEPT !.room = st.room], Undefined)

\* the notifications a session has emitted when every non-terminal read of
\* the loop is reported once
Reported(st, nonTerminalReads) ==
  st.progress = IF st.onProgress = "absent" THEN 0 ELSE nonTerminalReads

Ceil(a, b) == (a + b - 1) \div b

-----------------------------------------------------------------------------
\* C1: when the reads of a session are non-terminal ones followed by a
\* Settled one, the session does not go on waiting: it derives the outcome,
\* ends Done with the result that the direct derivation gives on that Settled
\* record, and has emitted at least one progress notification by then.
C1_SettledReadGivesDirectResult ==
  \A s \in Sessions :
    LET st == sess[s] IN
      /\ Settled(st.room) =>
           \/ st.pc \in {"deriving", "done"}
           \/ st.pc = "failed" /\ st.failedReads > 0
      /\ st.pc = "done" =>
           /\ Settled(st.room)
           /\ st.result = DirectDerivation(st)
           /\ (st.pollReads >= 2 /\ st.onProgress # "absent") => st.progress >= 1

C1_Witness ==
  \E s \in Sessions :
    /\ sess[s].pc = "done" /\ sess[s].pollReads >= 3
    /\ sess[s].onProgress = "returns" /\ sess[s].progress >= 2
    /\ sess[s].result.ok /\ sess[s].result.value.winner # ZERO_ADDRESS

-----------------------------------------------------------------------------
\* C2 as stated: a session that times out on a room that never left Waiting
\* has made at least ceil(timeout / pollInterval) reads (5 for 10000/2000).
C2_AtLeastCeilReads ==
  \A s \in Sessions :
    LET st == sess[s] IN
      (TimedOut(st) /\ StillWaiting(st) /\ st.pollInterval > 0)
        => st.pollReads >= Ceil(st.timeout, st.pollInterval)

\* C2 amended: a session that times out has made exactly
\* ceil(timeout / pollInterval) reads when every read returned at once and
\* every sleep lasted exactly pollInterval, and at least one read whenever
\* timeout > 0.
C2_CeilReadsWhenTicksExact ==
  \A s \in Sessions :
    LET st == sess[s] IN
      TimedOut(st) =>
        /\ st.timeout > 0 => st.pollReads >= 1
        /\ (st.exact /\ st.pollInterval > 0)
             => st.pollReads = Ceil(st.timeout, st.pollInterval)

C2_Witness ==
  \E s \in Sessions :
    /\ TimedOut(sess[s]) /\ sess[s].exact /\ StillWaiting(sess[s])
    /\ sess[s].timeout = 10000 /\ sess[s].pollInterval = 2000 /\ sess[s].pollReads = 5

-----------------------------------------------------------------------------
\* C3 as stated: a session times out no later than timeout + pollInterval
\* after it started.
C3_TimeoutAtMostOneIntervalLate ==
  \A s \in Sessions :
    LET st == sess[s] IN
      TimedOut(st) => st.endAt <= st.startTime + st.timeout + st.pollInterval

\* C3 amended: the timeout is checked at every poll tick; the session times
\* out at the first check made once timeout has elapsed, every read was issued
\* before timeout had elapsed, and the failure comes earlier than
\* timeout + pollInterval when every read returned at once and every sleep
\* lasted exactly pollInterval.
C3_TimeoutAtFirstCheckAfterDeadline ==
  \A s \in Sessions :
    LET st == sess[s] IN
      TimedOut(st) =>
        /\ st.endAt - st.startTime >= st.timeout
        /\ st.pollReads = 0 => st.endAt = st.startTime
        /\ st.pollReads > 0 =>
             /\ st.tickAt - st.startTime < st.timeout
             /\ st.exact => st.endAt - st.startTime < st.timeout + st.pollInterval

C3_Witness ==
  \E s \in Sessions :
    /\ TimedOut(sess[s]) /\ sess[s].pollReads > 0 /\ ~sess[s].exact
    /\ sess[s].endAt > sess[s].startTime + sess[s].timeout + sess[s].pollInterval

-----------------------------------------------------------------------------
\* C4: in waitForCoinFlipResult a read showing isActive=false, winner = zero
\* and playerB = zero ends the session on that tick, Failed with the
\* "cancelled" error, with no notification for that read and no further read.
C4_CoinFlipCancelledFails ==
  \A s \in Sessions :
    LET st == sess[s] IN
      (st.kind = "coinflip" /\ Cancelled(st.room) /\ st.room.playerB = ZERO_ADDRESS)
        => /\ st.pc = "failed"
           /\ st.result = Failure(ErrRoomCancelled)
           /\ st.inFlight = 0
           /\ st.reads = st.pollReads
           /\ Reported(st, st.pollReads - 1)

C4_Witness ==
  \E s \in Sessions :
    /\ sess[s].kind = "coinflip" /\ sess[s].pc = "failed"
    /\ sess[s].result = Failure(ErrRoomCancelled)
    /\ sess[s].pollReads >= 2 /\ sess[s].onProgress = "returns"

-----------------------------------------------------------------------------
\* C5: in waitForDiceResult a read showing a Cancelled room (isActive=false,
\* winner = zero) ends the session on that tick, Failed with a "cancelled"
\* error.
C5_DiceCancelledFails ==
  \A s \in Sessions :
    LET st == sess[s] IN
      (st.kind = "dice" /\ Cancelled(st.room))
        => st.pc = "failed" /\ st.result = Failure(ErrRoomCancelled)

-----------------------------------------------------------------------------
\* C6: a failed read ends the session at once with the read's error: it is
\* not retried, no read is in flight or issued after it, no notification is
\* emitted for that tick, and the outcome is neither Timeout nor Cancelled nor
\* a continued wait.
C6_ReadErrorPropagates ==
  \A s \in Sessions :
    LET st == sess[s] IN
      st.failedReads > 0 =>
        /\ st.pc = "failed"
        /\ st.result = Failure(ErrRead)
        /\ st.failedReads = 1
        /\ st.inFlight = 0
        /\ Reported(st, st.pollReads - 1)

C6_Witness ==
  \E s \in Sessions :
    /\ sess[s].failedReads = 1 /\ sess[s].pc = "failed"
    /\ sess[s].pollReads >= 2 /\ sess[s].onProgress = "returns"
    /\ sess[s].reads = sess[s].pollReads

-----------------------------------------------------------------------------
\* a read of the loop is issued on entering the call or after a completed
\* sleep, while no other read of the session is in flight
IssuedAfterSleep(st) ==
  /\ st.issuedFrom \in {"idle", "sleeping"}
  /\ st.issuedFrom = "sleeping" => st.sleptFull

\* C8 as stated: at most one read of a session is in flight, and every read
\* is issued after the previous read returned and the sleep that followed it
\* completed.
C8_EveryReadAfterSleep ==
  \A s \in Sessions :
    LET st == sess[s] IN
      /\ st.inFlight <= 1
      /\ st.reads > 0 => IssuedAfterSleep(st)

\* C8 amended: at most one read of a session is in flight; a read of the
\* polling loop is issued only after the previous read returned and the sleep
\* that followed it completed, while the reads of the derivation that follows
\* a Settled read are issued as soon as the previous read returned, without a
\* sleep in between.
C8_OneReadInFlight ==
  \A s \in Sessions :
    LET st == sess[s] IN
      /\ st.inFlight <= 1
      /\ st.inFlight = 1 <=> st.pc \in {"polling", "deriving"}
      /\ st.reads > 0 =>
           \/ IssuedAfterSleep(st) /\ st.reads = st.pollReads
           \/ /\ st.issuedFrom \in {"polling", "deriving"}
              /\ Settled(st.room)
              /\ st.reads > st.pollReads

C8_Witness ==
  \E s \in Sessions :
    /\ sess[s].pc = "deriving" /\ sess[s].stage = "players"
    /\ sess[s].inFlight = 1 /\ sess[s].pollReads >= 2

-----------------------------------------------------------------------------
\* what a caller sees of a session: where it is, how it ended, what it read
Observable(st) ==
  [pc |-> st.pc, result |-> st.result, reads |-> st.reads, pollReads |-> st.pollReads]

\* C7: the progress callback never affects a session's transitions: for the
\* same reads and clock values a session is in the same state, with the same
\* outcome and the same reads issued, whether onProgress is absent, returns
\* normally or throws.
C7_CallbackNeverAffectsSession ==
  \A s, t \in Sessions : Observable(sess[s]) = Observable(sess[t])

-----------------------------------------------------------------------------
\* the outcome of a session is the one its own reads and its own clock
\* readings give
OwnOutcome(st) ==
  /\ st.pc = "done" => Settled(st.room) /\ st.result = DirectDerivation(st)
  /\ TimedOut(st) =>
       /\ st.endAt - st.startTime >= st.timeout
       /\ st.pollReads > 0 => st.tickAt - st.startTime < st.timeout
  /\ (st.pc = "failed" /\ st.result = Failure(ErrRoomCancelled)) => Cancelled(st.room)
  /\ st.pc \in {"sleeping", "done"} \/ TimedOut(st) =>
       Reported(st, IF st.pc = "done" THEN st.pollReads - 1 ELSE st.pollReads)

\* C9: two concurrent sessions share no mutable state: a step of one session
\* leaves the locals of the other untouched, under every interleaving, and
\* each session's outcome and notifications are those its own reads give.
C9_SessionsShareNoState ==
  /\ [](\A s \in Sessions : OwnOutcome(sess[s]))
  /\ [][\A s \in Sessions : \A t \in Sessions \ {s} :
          sess'[s] # sess[s] => sess'[t] = sess[t]]_vars

C9_Witness ==
  /\ sess[1].pc = "done" /\ sess[2].pc = "failed" /\ TimedOut(sess[2])
  /\ sess[1].kind = sess[2].kind
  /\ sess[1].startTime # sess[2].startTime

-----------------------------------------------------------------------------
Unsettled(res) == ~res.ok /\ res.error \in {ErrCoinNotCompleted, ErrDiceNotCompleted}

\* a direct call of a derivation whose reads have returned
CoinCall == call.fn = "getCoinFlipGameResult" /\ call.readOk
DiceCall == call.fn = "getDiceGameResult" /\ call.readOk

\* C10: getCoinFlipGameResult and getDiceGameResult on a room whose isActive
\* flag is true fail with the Unsettled error and return no result, whatever
\* the other fields of the room and whoever the observer is.
C10_ActiveRoomIsUnsettled ==
  /\ (call.fn = "getCoinFlipGameResult" /\ call.readOk /\ coin.isActive)
       => call.result = Failure(ErrCoinNotCompleted)
  /\ (call.fn = "getDiceGameResult" /\ call.readOk /\ dice.room.isActive)
       => call.result = Failure(ErrDiceNotCompleted)

C10_Witness ==
  /\ call.fn = "getCoinFlipGameResult" /\ call.readOk
  /\ coin.isActive /\ coin.winner # ZERO_ADDRESS /\ coin.playerB # ZERO_ADDRESS
  /\ Unsettled(call.result)

-----------------------------------------------------------------------------
CancelledOrUnset(res) == ~res.ok /\ res.error = ErrCoinCancelled

\* C11: getCoinFlipGameResult on a room with isActive=false and winner = zero
\* address fails with the "cancelled/unset" error, which is another error than
\* the Unsettled one, and returns no result.
C11_InactiveWithoutWinnerIsCancelledOrUnset ==
  (CoinCall /\ ~coin.isActive /\ coin.winner = ZERO_ADDRESS)
    => /\ call.result = Failure(ErrCoinCancelled)
       /\ CancelledOrUnset(call.result)
       /\ ~Unsettled(call.result)

C11_Witness ==
  /\ CoinCall /\ ~coin.isActive /\ coin.winner = ZERO_ADDRESS
  /\ coin.playerB # ZERO_ADDRESS /\ call.playerAddress = "0xBb"
  /\ CancelledOrUnset(call.result)

-----------------------------------------------------------------------------
\* C12: getDiceGameResult fails with the Unsettled error exactly when
\* isActive=true, and with a CancelledOrUnset error, of another kind than
\* Unsettled, when isActive=false and winner = zero address.
C12_DiceErrorsAsCoinFlip ==
  DiceCall =>
    /\ Unsettled(call.result) <=> dice.room.isActive
    /\ (~dice.room.isActive /\ dice.room.winner = ZERO_ADDRESS)
         => ~call.result.ok /\ ~Unsettled(call.result)

-----------------------------------------------------------------------------
\* C13: for every settled CoinFlip room the derived result has
\* payout + fee = betAmount * 2 and fee = floor(betAmount * 2 * houseEdgeBps / 10000)
\* (betAmount=1000000, houseEdgeBps=500: fee=100000, payout=1900000).
C13_CoinFlipConservation ==
  (CoinCall /\ Settled(coin)) =>
    /\ call.result.ok
    /\ call.result.value.payout + call.result.value.fee = coin.betAmount * 2
    /\ call.result.value.fee = (coin.betAmount * 2 * coin.houseEdgeBps) \div 10000

C13_Witness ==
  /\ CoinCall /\ Settled(coin) /\ call.result.ok
  /\ coin.betAmount = 1000000 /\ coin.houseEdgeBps = 500
  /\ call.result.value.fee = 100000 /\ call.result.value.payout = 1900000

-----------------------------------------------------------------------------
\* the observer of the latest call: the address given, else the wallet's
CallObserver == observer(call.playerAddress)

SameAddress(a, b) == a # Undefined /\ b # Undefined /\ toLowerCase(a) = toLowerCase(b)

\* a settled room as the ledger records it: the winner is one of those who played
SettledCoinFlip ==
  /\ Settled(coin) /\ coin.playerB # ZERO_ADDRESS
  /\ SameAddress(coin.winner, coin.playerA) \/ SameAddress(coin.winner, coin.playerB)

SettledDice ==
  /\ Settled(dice.room)
  /\ \E i \in 1..Len(dice.players) : SameAddress(dice.room.winner, dice.players[i])

\* the latest call derived a result from a settled room
DerivedFromSettled ==
  \/ CoinCall /\ SettledCoinFlip /\ call.result.ok
  \/ DiceCall /\ SettledDice /\ call.result.ok

ObserverWon ==
  SameAddress(CallObserver, IF call.fn = "getCoinFlipGameResult" THEN coin.winner
                            ELSE dice.room.winner)

ObserverPlayed ==
  IF call.fn = "getCoinFlipGameResult"
    THEN SameAddress(CallObserver, coin.playerA) \/ SameAddress(CallObserver, coin.playerB)
    ELSE \E i \in 1..Len(dice.players) : SameAddress(CallObserver, dice.players[i])

\* C14 as stated: in a result derived from a settled room, netChange is
\* payout - betAmount if and only if the observer is the winner, -betAmount if
\* and only if the observer played and did not win, and 0 if and only if the
\* observer did not play.
C14_NetChangeIffCategory ==
  DerivedFromSettled =>
    LET r == call.result.value IN
      /\ (r.netChange = r.payout - r.betAmount) <=> ObserverWon
      /\ (r.netChange = 0 - r.betAmount) <=> (ObserverPlayed /\ ~ObserverWon)
      /\ (r.netChange = 0) <=> ~ObserverPlayed

\* C14 amended: netChange is payout - betAmount when the observer is the
\* winner, -betAmount when the observer played and did not win, and 0 when the
\* observer did not play; the three values tell the three cases apart whenever
\* betAmount > 0 and payout is neither 0 nor betAmount.
C14_NetChangeByCategory ==
  DerivedFromSettled =>
    LET r == call.result.value IN
      /\ ObserverWon => r.netChange = r.payout - r.betAmount
      /\ (ObserverPlayed /\ ~ObserverWon) => r.netChange = 0 - r.betAmount
      /\ ~ObserverPlayed => r.netChange = 0
      /\ (r.betAmount > 0 /\ r.payout # 0 /\ r.payout # r.betAmount) =>
           /\ (r.netChange = r.payout - r.betAmount) => ObserverWon
           /\ (r.netChange = 0 - r.betAmount) => (ObserverPlayed /\ ~ObserverWon)
           /\ (r.netChange = 0) => ~ObserverPlayed

C14_Witness ==
  /\ DerivedFromSettled /\ call.fn = "getCoinFlipGameResult"
  /\ ObserverWon /\ call.result.value.payout = call.result.value.betAmount
  /\ call.result.value.netChange = 0

-----------------------------------------------------------------------------
\* C15: for every settled CoinFlip room coinResult is "heads" when randomWord
\* is even and "tails" when it is odd (0 gives heads, 7 gives tails), whatever
\* the other fields of the room are, the winner included.
C15_CoinResultIsParity ==
  (CoinCall /\ Settled(coin)) =>
    /\ call.result.ok
    /\ call.result.value.coinResult \in {"heads", "tails"}
    /\ call.result.value.coinResult = "heads" <=> coin.randomWord % 2 = 0
    /\ call.result.value.coinResult = "tails" <=> coin.randomWord % 2 = 1
    /\ call.result.value.summary.coin = call.result.value.coinResult

C15_Witness ==
  /\ CoinCall /\ Settled(coin) /\ coin.randomWord = 7
  /\ coin.winner = coin.playerA /\ call.result.ok
  /\ call.result.value.coinResult = "tails"

-----------------------------------------------------------------------------
\* the latest call repeats the call made before it: the same derivation with
\* the same observer argument, the reads of both having returned
Repeated ==
  /\ call.fn \in {"getCoinFlipGameResult", "getDiceGameResult"}
  /\ call.before.fn = call.fn
  /\ call.before.playerAddress = call.playerAddress
  /\ call.readOk /\ call.before.readOk

-----------------------------------------------------------------------------
\* the latest call was made with no observer address on a client with no wallet
NoObserver == call.playerAddress = Undefined /\ account = Undefined

\* C20: on a Settled room, with no observer address and no wallet,
\* getCoinFlipGameResult and getDiceGameResult do not fail: they return
\* didIWin=false, netChange=0, (Dice) myNumber=0 and a summary that names the
\* winner in the third person, with the winner, payout and fee that the call
\* gives for any observer supplied.
C20_NoObserverDegrades ==
  /\ (CoinCall /\ NoObserver /\ Settled(coin)) =>
       /\ call.result.ok
       /\ ~call.result.value.didIWin /\ call.result.value.netChange = 0
       /\ call.result.value.summary.who = slice10(coin.winner)
       /\ call.result.value.summary.form = "Coin landed. Winner won"
       /\ \A o \in Observers \ {Undefined} :
            LET with == getCoinFlipGameResult(coin, observer(o)) IN
              /\ with.ok
              /\ with.value.winner = call.result.value.winner
              /\ with.value.payout = call.result.value.payout
              /\ with.value.fee = call.result.value.fee
  /\ (DiceCall /\ NoObserver /\ Settled(dice.room)) =>
       /\ call.result.ok
       /\ ~call.result.value.didIWin /\ call.result.value.netChange = 0
       /\ call.result.value.myNumber = 0
       /\ call.result.value.summary.who = slice10(dice.room.winner)
       /\ call.result.value.summary.form = "Number won! Winner won"
       /\ \A o \in Observers \ {Undefined} :
            LET with == diceGameResultOf(dice, o) IN
              /\ with.ok
              /\ with.value.winner = call.result.value.winner
              /\ with.value.payout = call.result.value.payout
              /\ with.value.fee = call.result.value.fee

C20_Witness ==
  /\ DiceCall /\ NoObserver /\ Settled(dice.room)
  /\ call.result.ok /\ call.result.value.myNumber = 0
  /\ call.result.value.payout > 0

-----------------------------------------------------------------------------
\* the fees of the call in progress are known and buffered
FeesKnown == call.fn # "none" /\ call.query # <<>>

\* the larger of the estimated max fee and the priority fee
RaisedFee == IF call.maxFeePerGas > call.maxPriorityFeePerGas
               THEN call.maxFeePerGas ELSE call.maxPriorityFeePerGas

\* r = floor(m * 140 / 100), stated on m = 5 * a + b: r = 7 * a + floor(7 * b / 5)
IsBuffered(r, m) == r = 7 * (m \div 5) + (7 * (m % 5)) \div 5

\* C17: estimateVrfCost returns maxFeePerGas = floor(max(X, Y) * 140 / 100)
\* for the estimated max fee X and the priority fee Y; when X < Y the value is
\* raised to Y before the buffer, so the returned maxFeePerGas is never below
\* the returned maxPriorityFeePerGas.
C17_MaxFeeRaisedThenBuffered ==
  /\ FeesKnown =>
       /\ IsBuffered(call.safeMaxFeePerGas, RaisedFee)
       /\ RaisedFee <= 15000000 => call.safeMaxFeePerGas = (RaisedFee * 140) \div 100
       /\ call.safeMaxFeePerGas >= call.maxPriorityFeePerGas
  /\ (call.fn = "estimateVrfCost" /\ call.pc = "done") =>
       /\ call.result.ok
       /\ call.result.value.maxFeePerGas = call.safeMaxFeePerGas
       /\ call.result.value.maxPriorityFeePerGas = call.maxPriorityFeePerGas
       /\ call.result.value.maxFeePerGas >= call.result.value.maxPriorityFeePerGas

C17_Witness ==
  /\ call.fn = "estimateVrfCost" /\ call.pc = "done" /\ ~call.primaryFailed
  /\ call.maxFeePerGas = 7 /\ call.maxPriorityFeePerGas = 10
  /\ call.result.value.maxFeePerGas = 14

-----------------------------------------------------------------------------
\* the reads of the estimation whose failure nothing catches
EstimationReads == {"vrfCallbackGasLimit", "getGasPrice", "estimateRequestPriceNative"}

\* the call in progress ended on a failed read of the estimation
EstimationFailed ==
  /\ call.fn # "none" /\ call.pc = "failed" /\ call.reads # <<>>
  /\ call.reads[Len(call.reads)] \in EstimationReads

\* C18: when the read of the callback gas limit, the fallback gas-price query
\* or the oracle price query fails, estimateVrfCost fails with no estimate,
\* and joinCoinFlipRoom, a last-player joinDiceRoom and startDiceGame fail
\* without submitting a write; a write of these methods always carries the
\* cost and fees estimated within the same call, never a zero, default or
\* earlier one.
C18_NoWriteWithoutEstimate ==
  /\ EstimationFailed =>
       /\ ~call.result.ok /\ call.result.error = ErrRead
       /\ ~call.estimated
       /\ call.tx.method = "none"
  /\ (call.fn \in WriteMethods /\ needsVrfCost(call.fn, call.options)
        /\ call.tx.method # "none") =>
       /\ call.estimated /\ call.tx.paysVrf
       /\ call.tx.value = call.answer /\ call.answer \in OracleAnswers
       /\ call.tx.maxFeePerGas = call.safeMaxFeePerGas
       /\ call.tx.maxPriorityFeePerGas = call.maxPriorityFeePerGas
       /\ call.query = <<call.callbackGasLimit, 1, call.safeMaxFeePerGas>>

C18_Witness ==
  /\ EstimationFailed /\ call.fn = "joinDiceRoom" /\ call.primaryFailed
  /\ call.lastCost > 0 /\ call.tx.method = "none"
  /\ call.reads[Len(call.reads)] = "estimateRequestPriceNative"

-----------------------------------------------------------------------------
\* C19: on a client constructed without a private key every write method
\* fails with "Wallet not configured" before any ledger call is issued: no
\* write is submitted and no read is made, the VRF cost estimation included.
C19_WritesRequireWallet ==
  (account = Undefined /\ call.fn \in WriteMethods) =>
    /\ call.pc = "failed"
    /\ ~call.result.ok /\ call.result.error = ErrWallet
    /\ call.reads = <<>>
    /\ call.tx.method = "none"

C19_Witness ==
  /\ account = Undefined /\ call.fn = "joinDiceRoom"
  /\ needsVrfCost(call.fn, call.options)
  /\ call.pc = "failed" /\ call.result.error = ErrWallet /\ call.n = 2

-----------------------------------------------------------------------------
\* an error that tells its kind and its room apart from its message
Structured(res) == {"kind", "roomId"} \subseteq DOMAIN res

\* C21: every terminal error of the core (Unsettled, CancelledOrUnset,
\* Timeout, Cancelled) carries its error kind and the id of the room it
\* concerns as structured fields, beside the human-readable message.
C21_ErrorsAreStructured ==
  \A s \in Sessions :
    sess[s].pc = "failed" => Structured(sess[s].result)

-----------------------------------------------------------------------------
\* C22: for every settled Dice room the derived result has
\* pot = betAmount * currentPlayers, fee = floor(pot * 500 / 10000) and
\* payout = pot - fee, hence payout + fee = pot; the rate is 500 bps whatever
\* the fields of the room are.
C22_DiceConservation ==
  (DiceCall /\ Settled(dice.room)) =>
    LET pot == dice.room.betAmount * dice.room.currentPlayers IN
      /\ call.result.ok
      /\ call.result.value.fee = (pot * 500) \div 10000
      /\ call.result.value.payout = pot - call.result.value.fee
      /\ call.result.value.payout + call.result.value.fee = pot

C22_Witness ==
  /\ DiceCall /\ Settled(dice.room) /\ call.result.ok
  /\ dice.room.betAmount = 1000000 /\ dice.room.currentPlayers = 2
  /\ Len(dice.players) = 3
  /\ call.result.value.fee = 100000 /\ call.result.value.payout = 1900000

-----------------------------------------------------------------------------
\* the latest call read the observer's number from the ledger
NumberRead ==
  \E i \in 1..Len(call.reads) : call.reads[i] = "getPlayerNumber"

\* C23: getDiceGameResult reads the observer's chosen number from the ledger
\* only when the observer is among the recorded participants, letter case
\* aside; when the observer is absent or not a participant no such read is
\* issued and myNumber is 0.
C23_NumberReadOnlyForParticipants ==
  DiceCall =>
    /\ NumberRead => ObserverPlayed
    /\ (~ObserverPlayed /\ call.result.ok) =>
         ~NumberRead /\ call.result.value.myNumber = 0
    /\ (NumberRead /\ call.result.ok) =>
         call.result.value.myNumber = playerNumber(dice, CallObserver)

C23_Witness ==
  /\ DiceCall /\ Settled(dice.room) /\ call.result.ok
  /\ call.playerAddress = "0xCc" /\ Len(dice.players) = 2
  /\ ~NumberRead /\ call.result.value.myNumber = 0

-----------------------------------------------------------------------------
\* C26: when the primary fee estimation fails, estimateVrfCost falls back to
\* the flat gas price G and the fixed priority fee 1500000000: it returns
\* maxPriorityFeePerGas = 1500000000 and
\* maxFeePerGas = floor(max(G, 1500000000) * 140 / 100), asks the oracle the
\* price of (callback gas limit, 1 word, that buffered fee) and returns the
\* oracle's answer unchanged as cost.
C26_FallbackEstimate ==
  (call.fn = "estimateVrfCost" /\ call.pc = "done" /\ call.primaryFailed) =>
    LET g == call.gasPrice
        m == IF g > 1500000000 THEN g ELSE 1500000000
    IN /\ call.result.ok
       /\ g \in GasPrices
       /\ call.result.value.maxPriorityFeePerGas = 1500000000
       /\ IsBuffered(call.result.value.maxFeePerGas, m)
       /\ g = 3 => call.result.value.maxFeePerGas = 2100000000
       /\ g = 1500000005 => call.result.value.maxFeePerGas = 2100000007
       /\ call.query = <<call.callbackGasLimit, 1, call.result.value.maxFeePerGas>>
       /\ call.callbackGasLimit \in GasLimits
       /\ call.result.value.cost = call.answer /\ call.answer \in OracleAnswers
       /\ call.reads = <<"vrfCallbackGasLimit", "estimateFeesPerGas", "getGasPrice",
                         "estimateRequestPriceNative">>

C26_Witness ==
  /\ call.fn = "estimateVrfCost" /\ call.pc = "done" /\ call.primaryFailed
  /\ call.gasPrice = 1500000005 /\ call.result.value.maxFeePerGas = 2100000007
  /\ call.result.value.cost = 9

-----------------------------------------------------------------------------
\* C28: the address comparisons of the CoinFlip derivation ignore letter
\* case: for a Settled room whose winner is playerA or playerB, in whatever
\* letter case the ledger reports the addresses and the observer is given,
\* didIWin holds exactly when the observer is the winner, and the loser is the
\* other participant, another address than the winner.
C28_CoinFlipComparisonsIgnoreCase ==
  (CoinCall /\ SettledCoinFlip /\ call.result.ok) =>
    LET r == call.result.value IN
      /\ r.didIWin <=> ObserverWon
      /\ SameAddress(r.loser, coin.playerA) \/ SameAddress(r.loser, coin.playerB)
      /\ ~SameAddress(r.loser, r.winner)

-----------------------------------------------------------------------------
(* Progress notifications of a waiting session.                            *)

\* the sub-state a notification names, against the room it was given for
Classifies(kind, room, msg) ==
  IF kind = "coinflip"
    THEN /\ msg.text \in {"Waiting for opponent to join...",
                          "Opponent joined! Waiting for VRF result..."}
         /\ (msg.text = "Waiting for opponent to join...") <=> (room.playerB = ZERO_ADDRESS)
    ELSE /\ msg.text \in {"Waiting for players (cur/max)...",
                          "Game started! Waiting for VRF result..."}
         /\ (msg.text = "Waiting for players (cur/max)...") <=> ~room.hasStarted
         /\ ~room.hasStarted => /\ msg.cur = room.currentPlayers
                                /\ msg.max = room.maxPlayers

\* the session was ended by what its last room read returned (a completed or
\* cancelled room, or a failed read)
EndedByRead(st) ==
  \/ st.pc \in {"deriving", "done"}
  \/ st.pc = "failed" /\ ~TimedOut(st) /\ st.result.error # ErrCallback

-----------------------------------------------------------------------------
\* the session has been started
Started(st) == st.pc \notin {"unused", "idle"}

\* C29: a session started with timeout <= 0 fails with Timeout at once,
\* having issued no read and no progress notification, whatever the room is
\* on the ledger at that moment (also Settled or Cancelled); a session with
\* timeout > 0 reports Timeout only after at least one room read.
C29_NoReadWithoutBudget ==
  \A s \in Sessions :
    LET st == sess[s] IN
      /\ (Started(st) /\ st.timeout <= 0) =>
            /\ TimedOut(st)
            /\ st.endAt = st.startTime
            /\ st.reads = 0 /\ st.pollReads = 0 /\ st.inFlight = 0
            /\ st.progress = 0 /\ st.lastMsg = NoMsg
      /\ (TimedOut(st) /\ st.timeout > 0) =>
            /\ st.pollReads >= 1
            /\ st.endAt > st.startTime

\* a session with a callback and a negative timeout was started on a room
\* that was already Settled, and one with a zero timeout on a room that was
\* already Cancelled; both failed with Timeout without a read
C29_Witness ==
  \E s \in Sessions :
    /\ TimedOut(sess[s]) /\ sess[s].reads = 0 /\ sess[s].onProgress = "returns"
    /\ sess[s].kind = "coinflip"
    /\ \/ sess[s].timeout < 0 /\ Settled(coin)
       \/ sess[s].timeout = 0 /\ Cancelled(coin)

\* a session with a one-millisecond timeout made its read before timing out
C29_WitnessTight ==
  \E s \in Sessions :
    TimedOut(sess[s]) /\ sess[s].timeout = 1 /\ sess[s].pollReads = 1

-----------------------------------------------------------------------------
\* the call has returned or thrown
Terminal(st) == st.pc \in {"done", "failed"}

\* Done, Failed(cancelled) or Failed(timeout)
EndedAsWaiter(st) ==
  \/ st.pc = "done" /\ st.result.ok
  \/ st.pc = "failed" /\ st.result.error = ErrRoomCancelled
  \/ TimedOut(st)

-----------------------------------------------------------------------------
\* the join carries the estimate: the oracle's price as value and the
\* buffered fee parameters
CarriesVrfFee(c) ==
  /\ c.tx.paysVrf
  /\ c.estimated /\ c.tx.value = c.answer
  /\ c.tx.maxFeePerGas = c.safeMaxFeePerGas
  /\ c.tx.maxPriorityFeePerGas = c.maxPriorityFeePerGas

\* C24: the joinDiceRoom call whose join brings the participant count on the
\* ledger to maxPlayers carries the VRF fee and the buffered gas parameters,
\* and a join that does not fill the room carries no fee, whichever joins and
\* leaves of other players happen between the caller's getDiceRoom read and
\* the join.
C24_LastPlayerPaysVrf ==
  call.fn = "joinDiceRoom" =>
    /\ call.landed = "filling" => CarriesVrfFee(call)
    /\ call.landed = "joining" => ~call.tx.paysVrf /\ call.tx.value = 0

-----------------------------------------------------------------------------
\* the reads of the ledger, the node and the oracle a direct call may issue
ReadCalls ==
  {"getCoinFlipRoom", "getDiceRoom", "getDiceRoomPlayers", "getPlayerNumber",
   "vrfCallbackGasLimit", "estimateFeesPerGas", "getGasPrice",
   "estimateRequestPriceNative"}

\* the direct call has submitted a transaction
WriteMade == Estimating /\ call.tx.method # "none"

\* the step belongs to one of the observing operations: it changes the
\* record of the session or of the direct call
OperationStep == sess' # sess \/ call' # call

\* C25: waitForCoinFlipResult, waitForDiceResult, getCoinFlipGameResult,
\* getDiceGameResult and estimateVrfCost issue only reads: no write call is
\* ever made by them, and no step of any of them changes the ledger's rooms,
\* which change only by steps of the ledger and the oracle.
C25_ObserversOnlyRead ==
  /\ [](~WriteMade)
  /\ [](~NoDirectCall => \A i \in 1..Len(call.reads) : call.reads[i] \in ReadCalls)
  /\ [][OperationStep => (coin' = coin /\ dice' = dice)]_vars

\* a session returned the result of a room that was joined and settled while
\* it waited, and a direct estimateVrfCost returned its estimate
C25_Witness ==
  /\ sess[1].pc = "done" /\ sess[1].pollReads >= 2
  /\ Settled(ledgerRoom(sess[1].kind))
  /\ Estimating /\ call.pc = "done" /\ Len(call.reads) >= 3

=============================================================================
